---- MODULE Spec2Model ----
(***************************************************************************)
(* paclogrs: the pacman-log pretty printer.                                *)
(*                                                                         *)
(* The model follows src/src/main.rs and src/src/paclog.rs.  Text is kept  *)
(* as text: a log line, a glob, a compiled regex and the bytes written to  *)
(* standard output are TLA+ strings, read one character at a time, so      *)
(* that parsing, glob compilation and rendering are computed the way the   *)
(* code computes them.                                                     *)
(*                                                                         *)
(* Scope of the environment: standard output is not a terminal             *)
(* (ColorChoice::Never, paclog.rs:168-172), so set_color and reset write   *)
(* nothing; the local time zone has one UTC offset for the whole run.      *)
(***************************************************************************)
EXTENDS Integers, Sequences, FiniteSets, TLC

(***************************************************************************)
(* Option<T>: None is the empty sequence, Some(x) the one-element one.     *)
(***************************************************************************)
None == << >>
Some(x) == << x >>
IsSome(o) == o # None
Unwrap(o) == o[1]

(***************************************************************************)
(* Characters and character classes of the two structural regexes.         *)
(***************************************************************************)
Char(s, i) == SubSeq(s, i, i)

Lower == {"a","b","c","d","e","f","g","h","i","j","k","l","m",
          "n","o","p","q","r","s","t","u","v","w","x","y","z"}
Upper == {"A","B","C","D","E","F","G","H","I","J","K","L","M",
          "N","O","P","Q","R","S","T","U","V","W","X","Y","Z"}
Digit == {"0","1","2","3","4","5","6","7","8","9"}

\* [[:alpha:]]
Alpha == Lower \cup Upper
\* [a-z0-9@_+]
NameHead == Lower \cup Digit \cup {"@", "_", "+"}
\* [a-z0-9@._+-]
NameTail == NameHead \cup {".", "-"}
\* [a-z0-9.:+-]
VersionChar == Lower \cup Digit \cup {".", ":", "+", "-"}

\* Whether the literal lit stands in s at index i.
StartsWith(s, i, lit) ==
    /\ i >= 1
    /\ i + Len(lit) - 1 <= Len(s)
    /\ SubSeq(s, i, i + Len(lit) - 1) = lit

\* The index just after the longest run of characters of class that starts
\* at index i of s (i itself when there is none): a greedy X*.
RECURSIVE Span(_, _, _)
Span(s, i, class) ==
    IF i <= Len(s) /\ Char(s, i) \in class THEN Span(s, i + 1, class) ELSE i

\* The indices of s that hold the character c.
IndicesOf(s, c) == {i \in 1..Len(s) : Char(s, i) = c}

Max(S) == CHOOSE m \in S : \A n \in S : n <= m
Min(S) == CHOOSE m \in S : \A n \in S : m <= n

\* ------------------------------------------------------------------------
\* PACKAGE_CHANGE_REGEX (paclog.rs:55-58), unanchored, leftmost-first:
\*   \[(?P<datetime>.*)\] \[ALPM\] (?P<action>[[[:alpha:]]]+)
\*   (?P<package>[a-z0-9@_+][a-z0-9@._+-]*) \((?P<version>.*)\)
\* ------------------------------------------------------------------------

\* The part of the regex from "\] \[ALPM\] " on, tried with its "]" at index
\* p: the action, package and version captures, or None.  The action and
\* the package are the longest runs of their classes (the space that must
\* follow is in neither class); the greedy version runs to the last ")".
EntryTail(line, p) ==
    LET a  == p + 9
        ae == Span(line, a, Alpha)
        n  == ae + 1
        ne == IF n <= Len(line) /\ Char(line, n) \in NameHead
              THEN Span(line, n + 1, NameTail)
              ELSE n
        closers == {i \in IndicesOf(line, ")") : i >= ne + 2}
    IN  IF /\ StartsWith(line, p, "] [ALPM] ")
           /\ ae > a
           /\ StartsWith(line, ae, " ")
           /\ ne > n
           /\ StartsWith(line, ne, " (")
           /\ closers # {}
        THEN Some([action  |-> SubSeq(line, a, ae - 1),
                   package |-> SubSeq(line, n, ne - 1),
                   version |-> SubSeq(line, ne + 2, Max(closers) - 1)])
        ELSE None

\* PACKAGE_CHANGE_REGEX.captures(line): the match starts at the leftmost "["
\* from which a match exists, and the greedy datetime then runs to the last
\* "] [ALPM] " from which the rest matches.
PACKAGE_CHANGE_REGEX(line) ==
    LET ps    == {p \in 1..Len(line) : EntryTail(line, p) # None}
        opens == {i \in IndicesOf(line, "[") : \E p \in ps : i < p}
    IN  IF opens = {}
        THEN None
        ELSE LET tail == Unwrap(EntryTail(line, Max(ps)))
             IN  Some([datetime |-> SubSeq(line, Min(opens) + 1, Max(ps) - 1),
                       action   |-> tail.action,
                       package  |-> tail.package,
                       version  |-> tail.version])

\* ------------------------------------------------------------------------
\* PACKAGE_VERSION_REGEX (paclog.rs:60-63):
\*   (^[a-z0-9.:+-]+)(?: -> ([a-z0-9.:+-]+$))?
\* Group 1 is anchored at the start only; the "$" belongs to the optional
\* group, so a field whose first token is followed by anything else still
\* matches, with group 2 absent.
\* ------------------------------------------------------------------------
PACKAGE_VERSION_REGEX(version) ==
    LET e  == Span(version, 1, VersionChar)
        r  == e + 4
        re == Span(version, r, VersionChar)
    IN  IF e = 1
        THEN None
        ELSE Some([lv |-> Some(SubSeq(version, 1, e - 1)),
                   rv |-> IF /\ StartsWith(version, e, " -> ")
                             /\ re > r
                             /\ re = Len(version) + 1
                          THEN Some(SubSeq(version, r, re - 1))
                          ELSE None])

(***************************************************************************)
(* PacmanAction::try_from (paclog.rs:43-51).                               *)
(***************************************************************************)
try_from(action) ==
    CASE action = "installed"  -> Some("Installed")
      [] action = "upgraded"   -> Some("Upgraded")
      [] action = "downgraded" -> Some("Downgraded")
      [] action = "removed"    -> Some("Removed")
      [] OTHER                 -> None

(***************************************************************************)
(* Dates and times (chrono).  A NaiveDate is <<year, month, day>>; a       *)
(* NaiveDateTime is [date, hour, minute, second].                          *)
(***************************************************************************)
DigitVal(c) == CHOOSE d \in 0..9 : Char("0123456789", d + 1) = c
DigitChar(d) == Char("0123456789", d + 1)

AllDigits(s) == \A i \in 1..Len(s) : Char(s, i) \in Digit

RECURSIVE Num(_)
Num(s) ==
    IF s = "" THEN 0
    ELSE Num(SubSeq(s, 1, Len(s) - 1)) * 10 + DigitVal(Char(s, Len(s)))

Pad2(n) == DigitChar(n \div 10) \o DigitChar(n % 10)
Pad4(n) == Pad2(n \div 100) \o Pad2(n % 100)

IsLeap(y) == (y % 4 = 0 /\ y % 100 # 0) \/ y % 400 = 0

DaysInMonth(y, m) ==
    CASE m \in {1, 3, 5, 7, 8, 10, 12} -> 31
      [] m \in {4, 6, 9, 11}           -> 30
      [] OTHER                         -> IF IsLeap(y) THEN 29 ELSE 28

ValidDate(y, m, d) == m \in 1..12 /\ d >= 1 /\ d <= DaysInMonth(y, m)

\* NaiveDate's derived ordering: by year, then month, then day.
DateLt(a, b) ==
    \/ a[1] < b[1]
    \/ a[1] = b[1] /\ a[2] < b[2]
    \/ a[1] = b[1] /\ a[2] = b[2] /\ a[3] < b[3]
DateGt(a, b) == DateLt(b, a)

NextDay(d) ==
    IF d[3] < DaysInMonth(d[1], d[2]) THEN <<d[1], d[2], d[3] + 1>>
    ELSE IF d[2] < 12 THEN <<d[1], d[2] + 1, 1>>
    ELSE <<d[1] + 1, 1, 1>>

PrevDay(d) ==
    IF d[3] > 1 THEN <<d[1], d[2], d[3] - 1>>
    ELSE IF d[2] > 1 THEN <<d[1], d[2] - 1, DaysInMonth(d[1], d[2] - 1)>>
    ELSE <<d[1] - 1, 12, 31>>

RECURSIVE AddDays(_, _)
AddDays(d, n) ==
    IF n = 0 THEN d
    ELSE IF n > 0 THEN AddDays(NextDay(d), n - 1)
    ELSE AddDays(PrevDay(d), n + 1)

\* A NaiveDateTime moved by k minutes (k may be negative).
AddMinutes(dt, k) ==
    LET total == dt.hour * 60 + dt.minute + k
    IN  [date   |-> AddDays(dt.date, total \div 1440),
         hour   |-> (total % 1440) \div 60,
         minute |-> total % 60,
         second |-> dt.second]

\* The date part "YYYY-MM-DD" at the head of s, under %Y-%m-%d.  The inputs
\* of this model write every field at full width, where chrono's numeric
\* items read exactly these digits.
ParseYmd(s) ==
    IF /\ Len(s) >= 10
       /\ AllDigits(SubSeq(s, 1, 4))
       /\ Char(s, 5) = "-"
       /\ AllDigits(SubSeq(s, 6, 7))
       /\ Char(s, 8) = "-"
       /\ AllDigits(SubSeq(s, 9, 10))
       /\ ValidDate(Num(SubSeq(s, 1, 4)), Num(SubSeq(s, 6, 7)), Num(SubSeq(s, 9, 10)))
    THEN Some(<<Num(SubSeq(s, 1, 4)), Num(SubSeq(s, 6, 7)), Num(SubSeq(s, 9, 10))>>)
    ELSE None

\* The time part "HH:MM" of s at index i.
ParseHm(s, i) ==
    IF /\ Len(s) >= i + 4
       /\ AllDigits(SubSeq(s, i, i + 1))
       /\ Char(s, i + 2) = ":"
       /\ AllDigits(SubSeq(s, i + 3, i + 4))
       /\ Num(SubSeq(s, i, i + 1)) <= 23
       /\ Num(SubSeq(s, i + 3, i + 4)) <= 59
    THEN Some(<<Num(SubSeq(s, i, i + 1)), Num(SubSeq(s, i + 3, i + 4))>>)
    ELSE None

\* NaiveDateTime::parse_from_str(s, "%Y-%m-%d %H:%M") (paclog.rs:111).
parse_naive(s) ==
    IF /\ Len(s) = 16
       /\ ParseYmd(s) # None
       /\ Char(s, 11) = " "
       /\ ParseHm(s, 12) # None
    THEN Some([date   |-> Unwrap(ParseYmd(s)),
               hour   |-> Unwrap(ParseHm(s, 12))[1],
               minute |-> Unwrap(ParseHm(s, 12))[2],
               second |-> 0])
    ELSE None

\* DateTime::parse_from_str(s, "%Y-%m-%dT%H:%M:%S%z") (paclog.rs:108): the
\* written wall-clock time and the written offset from UTC, in minutes.
parse_with_offset(s) ==
    IF /\ Len(s) = 24
       /\ ParseYmd(s) # None
       /\ Char(s, 11) = "T"
       /\ ParseHm(s, 12) # None
       /\ Char(s, 17) = ":"
       /\ AllDigits(SubSeq(s, 18, 19))
       /\ Num(SubSeq(s, 18, 19)) <= 59
       /\ Char(s, 20) \in {"+", "-"}
       /\ AllDigits(SubSeq(s, 21, 24))
       /\ Num(SubSeq(s, 21, 22)) <= 23
       /\ Num(SubSeq(s, 23, 24)) <= 59
    THEN Some([wall   |-> [date   |-> Unwrap(ParseYmd(s)),
                           hour   |-> Unwrap(ParseHm(s, 12))[1],
                           minute |-> Unwrap(ParseHm(s, 12))[2],
                           second |-> Num(SubSeq(s, 18, 19))],
               offset |-> (IF Char(s, 20) = "-" THEN -1 ELSE 1)
                          * (Num(SubSeq(s, 21, 22)) * 60 + Num(SubSeq(s, 23, 24)))])
    ELSE None

\* dt.with_timezone(&Local) (paclog.rs:110): the same instant, kept as its
\* UTC date-time and the local offset.
with_timezone(parsed, local) ==
    [utc |-> AddMinutes(parsed.wall, 0 - parsed.offset), offset |-> local]

\* The mutant of naive_local that forgets the offset of the local zone.
NaiveLocalIgnoresOffset(dt) == dt.utc

\* DateTime<Local>::naive_local: the local wall-clock date-time.
naive_local(dt) == AddMinutes(dt.utc, dt.offset)

\* format("%Y-%m-%d %H:%M") of a NaiveDateTime.
Format(ndt) ==
    Pad4(ndt.date[1]) \o "-" \o Pad2(ndt.date[2]) \o "-" \o Pad2(ndt.date[3])
        \o " " \o Pad2(ndt.hour) \o ":" \o Pad2(ndt.minute)

\* impl Display for PacmanDateTime (paclog.rs:19-30).
fmt(datetime) ==
    IF datetime.kind = "WithTimezone"
    THEN Format(naive_local(datetime.dt))
    ELSE Format(datetime.dt)

\* PackageChange::date (paclog.rs:158-163).
date(change) ==
    IF change.datetime.kind = "WithTimezone"
    THEN naive_local(change.datetime.dt).date
    ELSE change.datetime.dt.date

\* parse_date (main.rs:11-14): NaiveDate::parse_from_str(s, "%Y-%m-%d").
parse_date(date_str) ==
    IF Len(date_str) = 10 THEN ParseYmd(date_str) ELSE None

\* ------------------------------------------------------------------------
\* The name filter: globs compiled to regexes (main.rs:19-24).
\* ------------------------------------------------------------------------

\* The characters regex::escape puts a backslash before.
MetaChar == {"\\", ".", "+", "*", "?", "(", ")", "|", "[", "]",
             "{", "}", "^", "$", "#", "&", "-", "~"}

\* regex::escape(s).
RECURSIVE escape(_)
escape(s) ==
    IF s = "" THEN ""
    ELSE (IF Char(s, 1) \in MetaChar THEN "\\" \o Char(s, 1) ELSE Char(s, 1))
             \o escape(Tail(s))

\* str::replace(from, to): every non-overlapping occurrence, left to right.
RECURSIVE replace(_, _, _)
replace(s, from, to) ==
    IF s = "" THEN ""
    ELSE IF StartsWith(s, 1, from)
         THEN to \o replace(SubSeq(s, Len(from) + 1, Len(s)), from, to)
         ELSE Char(s, 1) \o replace(Tail(s), from, to)

\* The mutant of Compile that forgets the closing anchor.
CompileNoEndAnchor(glob) == "^" \o replace(escape(glob), "\\*", ".*")

\* format!("^{}$", regex::escape(s).replace(r"\*", ".*")) (main.rs:23).
Compile(glob) == "^" \o replace(escape(glob), "\\*", ".*") \o "$"

\* Whether the regex re matches s from index j of s on, reading re from
\* index i: the regexes Compile builds are made of "^", "$", an escaped
\* character, ".*" and characters that stand for themselves.
RECURSIVE MatchAt(_, _, _, _)
MatchAt(re, i, s, j) ==
    IF i > Len(re) THEN TRUE
    ELSE IF Char(re, i) = "$"
         THEN j = Len(s) + 1 /\ MatchAt(re, i + 1, s, j)
    ELSE IF Char(re, i) = "\\"
         THEN /\ j <= Len(s)
              /\ Char(s, j) = Char(re, i + 1)
              /\ MatchAt(re, i + 2, s, j + 1)
    ELSE IF StartsWith(re, i, ".*")
         THEN \E k \in j..(Len(s) + 1) :
                  /\ \A m \in j..(k - 1) : Char(s, m) # "\n"
                  /\ MatchAt(re, i + 2, s, k)
    ELSE IF Char(re, i) = "."
         THEN /\ j <= Len(s)
              /\ Char(s, j) # "\n"
              /\ MatchAt(re, i + 1, s, j + 1)
    ELSE /\ j <= Len(s)
         /\ Char(s, j) = Char(re, i)
         /\ MatchAt(re, i + 1, s, j + 1)

\* Regex::is_match: a match anywhere in s, unless the regex anchors it.
is_match(re, s) ==
    IF StartsWith(re, 1, "^")
    THEN MatchAt(re, 2, s, 1)
    ELSE \E j \in 1..(Len(s) + 1) : MatchAt(re, 1, s, j)

\* PackageChange::matches_any_regex (paclog.rs:76-83).
matches_any_regex(name, regexes) ==
    \E i \in 1..Len(regexes) : is_match(regexes[i], name)

\* ------------------------------------------------------------------------
\* PackageChange::from_line (paclog.rs:85-156).
\* The result is [result, printed]: result is Some(change) for Ok and None
\* for Err; printed is what the call itself writes to standard output with
\* println! (paclog.rs:114); the backquotes of that message are written as
\* apostrophes, a TLA+ string cannot hold a backquote.
\* ------------------------------------------------------------------------
Err == [result |-> None, printed |-> ""]

\* paclog.rs:108-116: the two formats, in order.
parse_datetime(datetime, local) ==
    IF parse_with_offset(datetime) # None
    THEN Some([kind |-> "WithTimezone",
               dt   |-> with_timezone(Unwrap(parse_with_offset(datetime)), local)])
    ELSE IF parse_naive(datetime) # None
    THEN Some([kind |-> "WithoutTimezone", dt |-> Unwrap(parse_naive(datetime))])
    ELSE None

\* The mutant of Versions that swaps the tokens of a downgrade.
VersionsDowngradeSwapped(action, lv, rv) ==
    CASE action = "Installed" -> Some([previous_version |-> None, current_version |-> lv])
      [] action = "Upgraded" ->
            IF rv = None THEN None
            ELSE Some([previous_version |-> lv, current_version |-> rv])
      [] action = "Downgraded" ->
            IF rv = None THEN None
            ELSE Some([previous_version |-> rv, current_version |-> lv])
      [] OTHER -> Some([previous_version |-> lv, current_version |-> None])

\* paclog.rs:123-140: the version tokens an action keeps; None when a token
\* it needs is missing (the ok_or(...)? of the match arms).  lv is always
\* present: group 1 takes part in every match of PACKAGE_VERSION_REGEX.
Versions(action, lv, rv) ==
    CASE action = "Installed" -> Some([previous_version |-> None, current_version |-> lv])
      [] action \in {"Upgraded", "Downgraded"} ->
            IF rv = None THEN None
            ELSE Some([previous_version |-> lv, current_version |-> rv])
      [] OTHER -> Some([previous_version |-> lv, current_version |-> None])

\* paclog.rs:92: the name passes when there is no regex or one matches.
NameAccepted(name, regexes) ==
    regexes = << >> \/ matches_any_regex(name, regexes)

from_line(line, regexes, local) ==
    LET cap == PACKAGE_CHANGE_REGEX(line)
    IN  IF cap = None THEN Err
        ELSE
        LET name     == Unwrap(cap).package
            action   == try_from(Unwrap(cap).action)
            datetime == parse_datetime(Unwrap(cap).datetime, local)
            vc       == PACKAGE_VERSION_REGEX(Unwrap(cap).version)
        IN  IF ~NameAccepted(name, regexes) THEN Err
            ELSE IF action = None THEN Err
            ELSE IF datetime = None
                 THEN [result  |-> None,
                       printed |-> "Unable to parse datetime from '"
                                       \o Unwrap(cap).datetime \o "'\n"]
            ELSE IF vc = None THEN Err
            ELSE IF Versions(Unwrap(action), Unwrap(vc).lv, Unwrap(vc).rv) = None THEN Err
            ELSE LET v == Unwrap(Versions(Unwrap(action), Unwrap(vc).lv, Unwrap(vc).rv))
                 IN  [result  |-> Some([name             |-> name,
                                        datetime         |-> Unwrap(datetime),
                                        action           |-> Unwrap(action),
                                        previous_version |-> v.previous_version,
                                        current_version  |-> v.current_version]),
                      printed |-> ""]

\* ------------------------------------------------------------------------
\* PackageChange::print (paclog.rs:167-254), standard output not a terminal.
\* ------------------------------------------------------------------------

\* The mutant of Pieces that writes the arrow without its spaces.
PiecesTightArrow(change) ==
    << "[" \o fmt(change.datetime) \o "]" >>
    \o << CASE change.action = "Installed"  -> " installed "
            [] change.action = "Upgraded"   -> " upgraded "
            [] change.action = "Downgraded" -> " downgraded "
            [] OTHER                        -> " removed " >>
    \o << change.name, " (" >>
    \o ( CASE change.action = "Installed" -> << Unwrap(change.current_version) >>
           [] change.action \in {"Upgraded", "Downgraded"} ->
                << Unwrap(change.previous_version), "->",
                   Unwrap(change.current_version) >>
           [] OTHER -> << Unwrap(change.previous_version) >> )
    \o << ")\n" >>

\* The byte strings of the write_all calls, in order.
Pieces(change) ==
    << "[" \o fmt(change.datetime) \o "]" >>
    \o << CASE change.action = "Installed"  -> " installed "
            [] change.action = "Upgraded"   -> " upgraded "
            [] change.action = "Downgraded" -> " downgraded "
            [] OTHER                        -> " removed " >>
    \o << change.name, " (" >>
    \o ( CASE change.action = "Installed" -> << Unwrap(change.current_version) >>
           [] change.action \in {"Upgraded", "Downgraded"} ->
                << Unwrap(change.previous_version), " -> ",
                   Unwrap(change.current_version) >>
           [] OTHER -> << Unwrap(change.previous_version) >> )
    \o << ")\n" >>

\* The capacity of the BufWriter inside BufferedStandardStream (paclog.rs:174).
\* The standard library's is 8192 bytes; it is scaled down here so that the
\* longer rendered lines of the model overflow it, as an 8 KiB line would.
BufCapacity == 44

\* The write_all calls from the i-th on: a piece that does not fit makes
\* the writer flush what it holds to the descriptor first (and write the
\* piece through when it is as large as the buffer); a failed write is
\* returned, and the ? operator ends print there.  buf is what the writer holds, out
\* what has reached the descriptor.
RECURSIVE WriteAll(_, _, _, _, _)
WriteAll(pieces, i, buf, out, fd_ok) ==
    IF i > Len(pieces) THEN [ok |-> TRUE, buf |-> buf, out |-> out]
    ELSE IF Len(buf) + Len(pieces[i]) <= BufCapacity
         THEN WriteAll(pieces, i + 1, buf \o pieces[i], out, fd_ok)
    ELSE IF ~fd_ok THEN [ok |-> FALSE, buf |-> buf, out |-> out]
    ELSE IF Len(pieces[i]) >= BufCapacity
         THEN WriteAll(pieces, i + 1, "", out \o buf \o pieces[i], fd_ok)
    ELSE WriteAll(pieces, i + 1, pieces[i], out \o buf, fd_ok)

\* print: [ok, written].  ok is whether print returns Ok(()); written is
\* what reached the descriptor.  The stream is dropped when print returns
\* (paclog.rs:253-254): the drop flushes what the writer still holds and
\* ignores a failure of that flush.
print(change, fd_ok) ==
    LET w == WriteAll(Pieces(change), 1, "", "", fd_ok)
    IN  [ok |-> w.ok, written |-> w.out \o (IF fd_ok THEN w.buf ELSE "")]

\* ------------------------------------------------------------------------
\* The program state.
\* ------------------------------------------------------------------------
VARIABLES
    packages,      \* Cli.packages: the globs of the command line (cli.rs:8)
    before_arg,    \* Cli.before: Option<String> (cli.rs:11)
    after_arg,     \* Cli.after: Option<String> (cli.rs:14)
    local_offset,  \* the UTC offset of chrono's Local zone, in minutes
    file,          \* the lines of /var/log/pacman.log, as BufRead::lines yields them
    pc,            \* where main is: "args", "open", "read", "render", "exit"
    regexes,       \* main's regexes (main.rs:19-24)
    before,        \* main's before: Option<NaiveDate> (main.rs:26-30)
    after,         \* main's after: Option<NaiveDate> (main.rs:32-36)
    next_line,     \* the index of the line the iterator of get_changes yields next
    changes,       \* get_changes' Vec<PackageChange>, each with the index of its line
    idx,           \* the index of the change main's loop handles next
    stdout,        \* the bytes that have reached standard output
    rendered,      \* history: one entry per call of print
    exit_code      \* the exit status of the process, once it has ended

vars == <<packages, before_arg, after_arg, local_offset, file, pc, regexes,
          before, after, next_line, changes, idx, stdout, rendered, exit_code>>

inputs == <<packages, before_arg, after_arg, local_offset, file>>

\* ------------------------------------------------------------------------
\* The inputs: log lines written field by field, command lines, time zones.
\* ------------------------------------------------------------------------

\* The version field of an entry: one token, or two with an arrow, then
\* whatever else the field holds.
VersionField(f) ==
    f.tok1 \o (IF f.tok2 = None THEN "" ELSE " -> " \o Unwrap(f.tok2)) \o f.vjunk

EntryText(f) ==
    f.prefix \o "[" \o f.ts \o "] " \o f.tag \o " " \o f.action \o " " \o f.name
        \o " (" \o VersionField(f) \o ")" \o f.suffix

\* A line of the file: readable is whether BufRead::lines yields Ok (the
\* bytes are UTF-8 and were read); fields, for a line written as an entry,
\* are the fields it was written from.
Entry(f) == [readable |-> TRUE, text |-> EntryText(f), fields |-> Some(f)]
FreeLine(t) == [readable |-> TRUE, text |-> t, fields |-> None]
NotText == [readable |-> FALSE, text |-> "", fields |-> None]

\* An entry of the documented shape, written from its five fields.
F(ts, action, name, tok1, tok2) ==
    [prefix |-> "", ts |-> ts, tag |-> "[ALPM]", action |-> action, name |-> name,
     tok1 |-> tok1, tok2 |-> tok2, vjunk |-> "", suffix |-> ""]

ActionWords == {"installed", "upgraded", "downgraded", "removed"}
OneToken == {"installed", "removed"}

\* Timestamps in the two formats pacman writes.
OffsetTimestamps == {"2024-03-01T10:00:00+0000", "2024-01-15T23:30:00+0000",
                     "2024-01-15T00:30:00+0100", "2024-02-29T21:15:42-0500"}
NaiveTimestamps == {"2024-03-01 10:00", "2024-01-15 09:30"}
ValidTimestamps == OffsetTimestamps \cup NaiveTimestamps
BadTimestamps == {"yesterday", "2024-13-01 10:00", "2024-03-01T10:00:00", ""}

ValidNames == {"vim", "foo", "bar", "baz", "food", "xfoo", "a.c", "abc"}

\* The version field an action word is written with.
Canon(ts, action, name) ==
    IF action \in OneToken
    THEN F(ts, action, name, "3.3.0", None)
    ELSE F(ts, action, name, "9.0.1", Some("9.0.2"))

\* Whether an entry is a valid log line of the documented shape.
WellFormed(f) ==
    /\ f.prefix = "" /\ f.suffix = "" /\ f.vjunk = "" /\ f.tag = "[ALPM]"
    /\ f.ts \in ValidTimestamps
    /\ f.action \in ActionWords
    /\ f.name \in ValidNames
    /\ f.tok1 # ""
    /\ (f.tok2 = None) = (f.action \in OneToken)

\* Entries that vary the action word and the version field.
VersionEntries ==
    { [F("2024-03-01 10:00", a, "vim", t[1], t[2]) EXCEPT !.vjunk = j] :
        a \in ActionWords \cup {"reinstalled"},
        t \in {<<"9.0.1", None>>, <<"9.0.1", Some("9.0.2")>>, <<"", None>>},
        j \in {"", " beta"} }

\* Entries that vary the package name.
NameEntries ==
    { F("2024-03-01 10:00", "installed", n, "3.3.0", None) :
        n \in ValidNames \cup {"Vim"} }

\* Entries that vary the timestamp.
TimestampEntries ==
    { Canon(ts, a, "vim") : ts \in ValidTimestamps \cup BadTimestamps, a \in ActionWords }

\* Entries with text around the documented shape, or another tag.
ShapeEntries ==
    { [Canon("2024-03-01 10:00", "installed", "vim") EXCEPT !.prefix = "junk "],
      [Canon("2024-03-01 10:00", "removed", "foo") EXCEPT !.suffix = " trailing"],
      [Canon("2024-03-01T10:00:00+0000", "upgraded", "vim")
           EXCEPT !.prefix = "junk ", !.suffix = " trailing"],
      [Canon("2024-03-01 10:00", "installed", "vim") EXCEPT !.tag = "[PACMAN]"],
      [Canon("2024-03-01 10:00", "installed", "vim") EXCEPT !.tag = "[ALPM-SCRIPTLET]"] }

SingleLines ==
    { Entry(f) : f \in VersionEntries \cup NameEntries \cup TimestampEntries
                         \cup ShapeEntries }
    \cup {FreeLine("not a pacman log line"), FreeLine(""), NotText}

PatternLists == { << >>, <<"foo", "ba*">>, <<"a.c">>, <<"*oo*", "v*m">> }

LocalOffsets == {0, 60, -300}

DateArgs == {None, Some("2024-01-14"), Some("2024-01-15"), Some("2024-01-16"),
             Some("15/01/2024")}

\* The longest file of the multi-line runs.
MaxLines == 2

\* Two valid entries, the later one dated before the earlier one, and one
\* line of each kind that from_line or the reader rejects.
FileLines ==
    { Entry(Canon("2024-03-01T10:00:00+0000", "upgraded", "vim")),
      Entry(Canon("2024-01-15 09:30", "removed", "foo")),
      Entry(Canon("yesterday", "installed", "bar")),
      Entry(Canon("2024-03-01 10:00", "reinstalled", "baz")),
      Entry(F("2024-03-01 10:00", "downgraded", "bar", "2.0", None)),
      FreeLine("not a pacman log line"),
      NotText }

Files == UNION { [1..n -> FileLines] : n \in 0..MaxLines }

\* One line, every pattern list and time zone, no date bound.
ParseInputs ==
    { [packages |-> p, before_arg |-> None, after_arg |-> None,
       local_offset |-> z, file |-> <<l>>] :
        p \in PatternLists, z \in LocalOffsets, l \in SingleLines }

\* One dated event, every pair of date bounds and every time zone.
DateInputs ==
    { [packages |-> << >>, before_arg |-> b, after_arg |-> a,
       local_offset |-> z, file |-> <<Entry(Canon(ts, "installed", "foo"))>>] :
        b \in DateArgs, a \in DateArgs, z \in LocalOffsets,
        ts \in {"2024-01-15 09:30", "2024-01-15T23:30:00+0000"} }

\* Files of up to MaxLines lines.
FileInputs ==
    { [packages |-> p, before_arg |-> None, after_arg |-> None,
       local_offset |-> 0, file |-> f] :
        p \in {<< >>, <<"foo", "ba*">>}, f \in Files }

Inputs == ParseInputs \cup DateInputs \cup FileInputs

Init ==
    /\ \E in \in Inputs :
        /\ packages = in.packages
        /\ before_arg = in.before_arg
        /\ after_arg = in.after_arg
        /\ local_offset = in.local_offset
        /\ file = in.file
    /\ pc = "args"
    /\ regexes = << >>
    /\ before = None
    /\ after = None
    /\ next_line = 1
    /\ changes = << >>
    /\ idx = 1
    /\ stdout = ""
    /\ rendered = << >>
    /\ exit_code = None

\* ------------------------------------------------------------------------
\* main (main.rs:16-55) and get_changes (paclog.rs:259-270).
\* ------------------------------------------------------------------------

\* The process ends with the given status.
Exit(code) == pc' = "exit" /\ exit_code' = Some(code)

\* Whether a date argument is given and does not parse.
BadDateArg(arg) == IsSome(arg) /\ parse_date(Unwrap(arg)) = None

\* Option<String> to Option<NaiveDate>, for an argument that parses.
DateBound(arg) == IF arg = None THEN None ELSE parse_date(Unwrap(arg))

\* main.rs:17-36: the globs are compiled and the date bounds parsed.  A
\* compiled glob is an escaped literal with ".*" in it, which Regex::new
\* accepts.
ParseArgs ==
    /\ pc = "args"
    /\ ~BadDateArg(before_arg)
    /\ ~BadDateArg(after_arg)
    /\ regexes' = [i \in 1..Len(packages) |-> Compile(packages[i])]
    /\ before' = DateBound(before_arg)
    /\ after' = DateBound(after_arg)
    /\ pc' = "open"
    /\ UNCHANGED <<inputs, next_line, changes, idx, stdout, rendered, exit_code>>

\* main.rs:27 and 33: parse_date fails and ? returns the error from main.
ParseArgsFails ==
    /\ pc = "args"
    /\ ~(~BadDateArg(before_arg) /\ ~BadDateArg(after_arg))
    /\ Exit(1)
    /\ UNCHANGED <<inputs, regexes, before, after, next_line, changes, idx,
                   stdout, rendered>>

\* paclog.rs:260: File::open succeeds.
OpenLog ==
    /\ pc = "open"
    /\ pc' = "read"
    /\ UNCHANGED <<inputs, regexes, before, after, next_line, changes, idx,
                   stdout, rendered, exit_code>>

\* paclog.rs:260 and main.rs:38: File::open fails, get_changes and main
\* return the error.
OpenLogFails ==
    /\ pc = "open"
    /\ Exit(1)
    /\ UNCHANGED <<inputs, regexes, before, after, next_line, changes, idx,
                   stdout, rendered>>

\* The mutant of Push that puts the new change first.
PushFront(vec, change) == <<change>> \o vec

\* Vec::push (paclog.rs:265).
Push(vec, change) == Append(vec, change)

\* Whether the iterator of paclog.rs:263 yields another line: lines() has
\* one, and it is Ok (map_while(Result::ok) ends at the first Err).
HasNext == next_line <= Len(file) /\ file[next_line].readable

\* paclog.rs:263-267: one turn of the loop of get_changes.  What from_line
\* prints reaches standard output at once (it ends in a newline).
ReadLine ==
    /\ pc = "read"
    /\ HasNext
    /\ LET r == from_line(file[next_line].text, regexes, local_offset)
       IN  /\ stdout' = stdout \o r.printed
           /\ changes' = IF r.result = None
                         THEN changes
                         ELSE Push(changes, [change |-> Unwrap(r.result),
                                             line   |-> next_line])
    /\ next_line' = next_line + 1
    /\ UNCHANGED <<inputs, pc, regexes, before, after, idx, rendered, exit_code>>

\* paclog.rs:114: println! panics when the write to standard output fails.
ReadLinePanics ==
    /\ pc = "read"
    /\ HasNext
    /\ from_line(file[next_line].text, regexes, local_offset).printed # ""
    /\ Exit(101)
    /\ UNCHANGED <<inputs, regexes, before, after, next_line, changes, idx,
                   stdout, rendered>>

\* paclog.rs:263 and 269: the iterator ends and get_changes returns.
EndOfLines ==
    /\ pc = "read"
    /\ ~HasNext
    /\ pc' = "render"
    /\ UNCHANGED <<inputs, regexes, before, after, next_line, changes, idx,
                   stdout, rendered, exit_code>>

\* The mutant of Filtered with exclusive bounds.
FilteredExclusive(change, not_after, not_before) ==
    \/ IsSome(not_after) /\ ~DateLt(date(change), Unwrap(not_after))
    \/ IsSome(not_before) /\ ~DateGt(date(change), Unwrap(not_before))

\* main.rs:40-49: whether the loop skips the change (continue).
Filtered(change, not_after, not_before) ==
    \/ IsSome(not_after) /\ DateGt(date(change), Unwrap(not_after))
    \/ IsSome(not_before) /\ DateLt(date(change), Unwrap(not_before))

\* main.rs:39-49: a change outside the date bounds is skipped.
SkipChange ==
    /\ pc = "render"
    /\ idx <= Len(changes)
    /\ Filtered(changes[idx].change, before, after)
    /\ idx' = idx + 1
    /\ UNCHANGED <<inputs, pc, regexes, before, after, next_line, changes,
                   stdout, rendered, exit_code>>

\* The history entry of a call of print: the line the change came from, the
\* text print has to write, and what reached standard output.
Call(entry, res) ==
    [line    |-> entry.line,
     text    |-> print(entry.change, TRUE).written,
     written |-> res.written]

\* main.rs:51: print returns Ok(()).  The environment decides whether the
\* writes to the descriptor succeed.
PrintChange ==
    /\ pc = "render"
    /\ idx <= Len(changes)
    /\ ~Filtered(changes[idx].change, before, after)
    /\ \E fd_ok \in BOOLEAN :
        LET res == print(changes[idx].change, fd_ok)
        IN  /\ res.ok
            /\ stdout' = stdout \o res.written
            /\ rendered' = Append(rendered, Call(changes[idx], res))
    /\ idx' = idx + 1
    /\ UNCHANGED <<inputs, pc, regexes, before, after, next_line, changes, exit_code>>

\* main.rs:51: print returns an error and ? returns it from main.
PrintFails ==
    /\ pc = "render"
    /\ idx <= Len(changes)
    /\ ~Filtered(changes[idx].change, before, after)
    /\ \E fd_ok \in BOOLEAN :
        LET res == print(changes[idx].change, fd_ok)
        IN  /\ ~res.ok
            /\ stdout' = stdout \o res.written
            /\ rendered' = Append(rendered, Call(changes[idx], res))
    /\ Exit(1)
    /\ UNCHANGED <<inputs, regexes, before, after, next_line, changes, idx>>

\* main.rs:54: every change was handled, main returns Ok(()).
Finish ==
    /\ pc = "render"
    /\ idx > Len(changes)
    /\ Exit(0)
    /\ UNCHANGED <<inputs, regexes, before, after, next_line, changes, idx,
                   stdout, rendered>>

Next ==
    \/ ParseArgs
    \/ ParseArgsFails
    \/ OpenLog
    \/ OpenLogFails
    \/ ReadLine
    \/ ReadLinePanics
    \/ EndOfLines
    \/ SkipChange
    \/ PrintChange
    \/ PrintFails
    \/ Finish

Spec == Init /\ [][Next]_vars

\* ------------------------------------------------------------------------
\* What the properties are stated with.
\* ------------------------------------------------------------------------

\* Whether get_changes kept an event for line k, and the event.
HasEvent(k) == \E i \in 1..Len(changes) : changes[i].line = k
EventOf(k) == changes[CHOOSE i \in 1..Len(changes) : changes[i].line = k].change

\* Whether print was called for the event of line k.
Printed(k) == \E i \in 1..Len(rendered) : rendered[i].line = k

\* The lines get_changes has consumed that were written as entries.
ConsumedEntries ==
    {k \in 1..(next_line - 1) : file[k].readable /\ IsSome(file[k].fields)}

Fields(k) == Unwrap(file[k].fields)

\* Glob matching as the documentation states it: * stands for any run of
\* characters, every other character for itself, on the whole name.
RECURSIVE GlobMatches(_, _)
GlobMatches(glob, name) ==
    IF glob = "" THEN name = ""
    ELSE IF Char(glob, 1) = "*"
         THEN \/ GlobMatches(Tail(glob), name)
              \/ name # "" /\ GlobMatches(glob, Tail(name))
    ELSE /\ name # ""
         /\ Char(name, 1) = Char(glob, 1)
         /\ GlobMatches(Tail(glob), Tail(name))

\* The names the command line asks for.
Wanted(name) ==
    packages = << >> \/ \E i \in 1..Len(packages) : GlobMatches(packages[i], name)

\* Days since 1970-01-01 of a civil date (proleptic Gregorian calendar).
DaysFromCivil(d) ==
    LET y   == IF d[2] <= 2 THEN d[1] - 1 ELSE d[1]
        era == y \div 400
        yoe == y - era * 400
        mp  == IF d[2] > 2 THEN d[2] - 3 ELSE d[2] + 9
        doy == (153 * mp + 2) \div 5 + d[3] - 1
        doe == yoe * 365 + yoe \div 4 - yoe \div 100 + doy
    IN  era * 146097 + doe - 719468

\* The minute count of a text "YYYY-MM-DD?HH:MM", read digit by digit.
MinutesOf(t) ==
    DaysFromCivil(<<Num(SubSeq(t, 1, 4)), Num(SubSeq(t, 6, 7)), Num(SubSeq(t, 9, 10))>>)
        * 1440 + Num(SubSeq(t, 12, 13)) * 60 + Num(SubSeq(t, 15, 16))

\* The UTC offset a timestamp is written with, in minutes (0 for the
\* format without one, which is local time as it stands).
WrittenOffset(ts) ==
    IF ts \in OffsetTimestamps
    THEN (IF Char(ts, 20) = "-" THEN -1 ELSE 1)
             * (Num(SubSeq(ts, 21, 22)) * 60 + Num(SubSeq(ts, 23, 24)))
    ELSE 0

\* The local minute count of the instant a timestamp denotes.
LocalMinutes(ts) ==
    IF ts \in OffsetTimestamps
    THEN MinutesOf(ts) - WrittenOffset(ts) + local_offset
    ELSE MinutesOf(ts)

\* The date, hour and minute of a timestamp exactly as written.
AsWritten(ts) == SubSeq(ts, 1, 10) \o " " \o SubSeq(ts, 12, 16)

\* The rendering of an entry around a timestamp display.
Rendering(display, f) ==
    "[" \o display \o "] " \o f.action \o " " \o f.name
        \o " (" \o VersionField(f) \o ")\n"

DateLe(a, b) == a = b \/ DateLt(a, b)

\* The date a date argument of the inputs denotes.
ArgDate(arg) ==
    CASE arg = Some("2024-01-14") -> <<2024, 1, 14>>
      [] arg = Some("2024-01-15") -> <<2024, 1, 15>>
      [] arg = Some("2024-01-16") -> <<2024, 1, 16>>

\* What the calls of print have put on standard output, in order.
RECURSIVE Written(_)
Written(calls) ==
    IF calls = << >> THEN "" ELSE Head(calls).written \o Written(Tail(calls))

\* A rendered line as the reader of a file yields it, and the same line
\* with the tag of the log put back after the timestamp.
Chomp(text) == SubSeq(text, 1, Len(text) - 1)
Retagged(text) == SubSeq(text, 1, 19) \o "[ALPM] " \o SubSeq(text, 20, Len(text))

SameEvent(a, b) ==
    /\ a.name = b.name
    /\ a.action = b.action
    /\ a.previous_version = b.previous_version
    /\ a.current_version = b.current_version

\* ------------------------------------------------------------------------
\* The claims.
\* ------------------------------------------------------------------------

\* Whether line k, taken by itself, parses to an event that passes the name
\* and date filters.
Survives(k) ==
    /\ file[k].readable
    /\ LET r == from_line(file[k].text, regexes, local_offset)
       IN  IsSome(r.result) /\ ~Filtered(Unwrap(r.result), before, after)

\* C1: when the run ends with status 0, print has been called for every
\* line of the file that by itself parses to an event and passes the name
\* and date filters, whatever lines precede it: no rejected line, a line
\* that cannot be read as text included, stops the processing of the lines
\* after it.
C1_NoRejectedLineStopsTheRest ==
    exit_code = Some(0) => \A k \in 1..Len(file) : Survives(k) => Printed(k)

\* C2: every event from_line returns has the versions its action asks for
\* (installed: current only; upgraded and downgraded: both, the first token
\* previous and the second current; removed: previous only), and an entry
\* whose version field lacks a token its action needs yields no event.
C2_VersionPresence ==
    /\ \A i \in 1..Len(changes) :
        LET c == changes[i].change
            f == Fields(changes[i].line)
        IN  /\ c.action = "Installed" =>
                /\ c.current_version = Some(f.tok1)
                /\ c.previous_version = None
            /\ c.action \in {"Upgraded", "Downgraded"} =>
                /\ IsSome(f.tok2)
                /\ c.previous_version = Some(f.tok1)
                /\ c.current_version = f.tok2
            /\ c.action = "Removed" =>
                /\ c.previous_version = Some(f.tok1)
                /\ c.current_version = None
            /\ f.tok1 # ""
    /\ \A k \in ConsumedEntries :
        \/ Fields(k).tok1 = ""
        \/ Fields(k).action \in {"upgraded", "downgraded"} /\ Fields(k).tok2 = None
        => ~HasEvent(k)

\* C2's case: a downgrade was parsed, and its two tokens kept in order.
C2_Witness ==
    \E i \in 1..Len(changes) :
        /\ changes[i].change.action = "Downgraded"
        /\ changes[i].change.previous_version = Some("9.0.1")
        /\ changes[i].change.current_version = Some("9.0.2")

\* C3: print is called for the events in the order of their lines in the
\* file, each line at most once: the output is never re-sorted.
C3_FileOrder ==
    /\ \A i, j \in 1..Len(rendered) : i < j => rendered[i].line < rendered[j].line
    /\ \A i, j \in 1..Len(changes) : i < j => changes[i].line < changes[j].line

\* C3's case: two events were rendered, the one rendered second dated
\* before the one rendered first.
C3_Witness ==
    /\ Len(rendered) = 2
    /\ rendered[1].line = 1
    /\ rendered[2].line = 2
    /\ DateLt(date(EventOf(2)), date(EventOf(1)))

\* C4: with no glob every name is accepted; with globs a name is accepted
\* exactly when one of them matches the whole name, * standing for any run
\* of characters and every other character for itself.  The globs foo and
\* ba* accept foo, bar and baz and reject food and xfoo.  An entry whose
\* name is not accepted yields no event.
C4_NameFilter ==
    pc # "args" =>
        /\ \A n \in ValidNames : NameAccepted(n, regexes) <=> Wanted(n)
        /\ packages = <<"foo", "ba*">> =>
            {n \in ValidNames : NameAccepted(n, regexes)} = {"foo", "bar", "baz"}
        /\ \A i \in 1..Len(changes) : Wanted(changes[i].change.name)
        /\ \A k \in ConsumedEntries : ~Wanted(Fields(k).name) => ~HasEvent(k)

\* C4's case: under the globs foo and ba*, the entry of package food was
\* read and rejected.
C4_Witness ==
    /\ packages = <<"foo", "ba*">>
    /\ pc = "render"
    /\ Len(file) = 1
    /\ IsSome(file[1].fields)
    /\ Fields(1).name = "food"
    /\ WellFormed(Fields(1))
    /\ changes = << >>

\* Whether d is the calendar date, in local time, of the instant the
\* timestamp ts denotes.
IsLocalDateOf(d, ts) ==
    /\ DaysFromCivil(d) * 1440 <= LocalMinutes(ts)
    /\ LocalMinutes(ts) < (DaysFromCivil(d) + 1) * 1440

\* C5: the loop of main calls print for an event exactly when its date is
\* not after --before (if given) and not before --after (if given), both
\* bounds inclusive and independent; the date is the calendar date of the
\* event in local time.  An event of 2024-01-15 passes --before 2024-01-15
\* --after 2024-01-15, fails --before 2024-01-14 and fails --after
\* 2024-01-16.
C5_DateFilter ==
    \A i \in 1..(idx - 1) :
        LET k == changes[i].line
            d == date(changes[i].change)
        IN  /\ WellFormed(Fields(k)) => IsLocalDateOf(d, Fields(k).ts)
            /\ Printed(k) <=>
                /\ before_arg = None \/ DateLe(d, ArgDate(before_arg))
                /\ after_arg = None \/ DateLe(ArgDate(after_arg), d)
            /\ Fields(k).ts = "2024-01-15 09:30" =>
                /\ before_arg = Some("2024-01-15") /\ after_arg = Some("2024-01-15")
                       => Printed(k)
                /\ before_arg = Some("2024-01-14") => ~Printed(k)
                /\ after_arg = Some("2024-01-16") => ~Printed(k)

\* C5's case: an event of 2024-01-15 was printed under --before 2024-01-15
\* --after 2024-01-15.
C5_Witness ==
    /\ before_arg = Some("2024-01-15")
    /\ after_arg = Some("2024-01-15")
    /\ Len(rendered) = 1
    /\ date(EventOf(1)) = <<2024, 1, 15>>

\* C6, as stated: a valid log line of the documented shape yields an event,
\* and print renders it as [YYYY-MM-DD HH:MM] action name (versions) with
\* the date, hour, minute, action word, name and version string exactly as
\* written in the line.
C6_AsWritten ==
    /\ \A k \in ConsumedEntries :
        WellFormed(Fields(k)) /\ Wanted(Fields(k).name) => HasEvent(k)
    /\ \A i \in 1..Len(rendered) :
        LET f == Fields(rendered[i].line)
        IN  WellFormed(f) => rendered[i].text = Rendering(AsWritten(f.ts), f)

\* C6, amended: the action word, name and version string are those written;
\* the date, hour and minute displayed are those of the written instant in
\* the local time zone: those written when the timestamp has no offset or
\* its offset is the local one, and the written time moved by the
\* difference of the two offsets otherwise.
C6_LocalTime ==
    /\ \A k \in ConsumedEntries :
        WellFormed(Fields(k)) /\ Wanted(Fields(k).name) => HasEvent(k)
    /\ \A i \in 1..Len(rendered) :
        LET f       == Fields(rendered[i].line)
            display == SubSeq(rendered[i].text, 2, 17)
        IN  WellFormed(f) =>
                /\ rendered[i].text = Rendering(display, f)
                /\ MinutesOf(display) = LocalMinutes(f.ts)
                /\ display = Format(Unwrap(parse_naive(display)))
                /\ f.ts \in NaiveTimestamps \/ WrittenOffset(f.ts) = local_offset
                       => display = AsWritten(f.ts)

\* C6's case: the upgrade of vim written at 10:00 +0000 was rendered where
\* local time is UTC+1, as 11:00.
C6_Witness ==
    /\ local_offset = 60
    /\ Len(rendered) = 1
    /\ file[1].text = "[2024-03-01T10:00:00+0000] [ALPM] upgraded vim (9.0.1 -> 9.0.2)"
    /\ rendered[1].text = "[2024-03-01 11:00] upgraded vim (9.0.1 -> 9.0.2)\n"

\* C7, as stated: the text print renders, given back to from_line with no
\* name pattern, yields an event with the same name, action and versions.
C7_RoundTrip ==
    \A i \in 1..Len(rendered) :
        LET r == from_line(Chomp(rendered[i].text), << >>, local_offset).result
        IN  IsSome(r) /\ SameEvent(Unwrap(r), EventOf(rendered[i].line))

\* C7, amended: from_line rejects the text print renders, which lacks the
\* [ALPM] tag; with the tag put back after the timestamp, from_line with no
\* name pattern yields an event with the same name, action and versions,
\* and a timestamp without time zone that is the displayed minute.
C7_RoundTripWithTag ==
    \A i \in 1..Len(rendered) :
        LET t == Chomp(rendered[i].text)
            r == from_line(Retagged(t), << >>, local_offset).result
        IN  /\ from_line(t, << >>, local_offset).result = None
            /\ IsSome(r)
            /\ SameEvent(Unwrap(r), EventOf(rendered[i].line))
            /\ Unwrap(r).datetime.kind = "WithoutTimezone"
            /\ fmt(Unwrap(r).datetime) = SubSeq(t, 2, 17)

\* C7's case: a downgrade parsed from a timestamp with an offset was
\* rendered.
C7_Witness ==
    /\ Len(rendered) = 1
    /\ EventOf(1).action = "Downgraded"
    /\ EventOf(1).datetime.kind = "WithTimezone"

\* C8: a rejected line writes nothing: standard output holds what the calls
\* of print wrote, one rendered line per surviving event, and nothing else.
C8_RejectionIsSilent == stdout = Written(rendered)

\* C9: the run never ends with status 0 after bytes of a rendered event
\* failed to reach standard output.
C9_WriteFailureIsFatal ==
    exit_code = Some(0) =>
        \A i \in 1..Len(rendered) : rendered[i].written = rendered[i].text

\* C10: from_line accepts a line only if the whole line is an entry of the
\* documented shape: nothing before the opening bracket, nothing after the
\* closing parenthesis, and a version field that is one token or two tokens
\* around an arrow and nothing else.
C10_WholeLine ==
    \A i \in 1..Len(changes) :
        LET f == Fields(changes[i].line)
        IN  f.prefix = "" /\ f.suffix = "" /\ f.vjunk = ""

====
